---------------------------- MODULE Spec2Model ----------------------------
(***************************************************************************)
(* Model of src/biomass.py, the palm-oil biomass calculator.               *)
(*                                                                         *)
(* Numbers.  The program computes with Python floats.  The model computes  *)
(* with exact rationals [n |-> numerator, d |-> denominator > 0] kept in   *)
(* lowest terms, so that equality of records is equality of numbers.       *)
(* Rounding of binary floating point is not modelled.                      *)
(*                                                                         *)
(* Dictionaries.  A Python dict is insertion ordered.  It is modelled as a *)
(* sequence of records [key, value] with pairwise distinct keys.           *)
(*                                                                         *)
(* Two specifications:                                                     *)
(*   Spec      several browser sessions, each interaction reruns main();   *)
(*   SpecUnit  single calls of the functions and of the computations of    *)
(*             main()'s tabs, on inputs drawn from bounded sets.           *)
(***************************************************************************)
EXTENDS Integers, Sequences, FiniteSets, TLC

\* ------------------------------------------------------------------ bounds
\* interactions (widget changes) explored over all sessions together
MaxSteps == 2
\* entries of a ratio table handed to calculate_biomass in a single call
MaxKeys == 2
\* sliders a single requested override mapping may name
MaxOverrides == 2

\* --------------------------------------------------------------- rationals
Abs(x) == IF x < 0 THEN -x ELSE x

RECURSIVE GCD(_, _)
GCD(a, b) == IF b = 0 THEN a ELSE GCD(b, a % b)

\* the rational n/d (d # 0) in lowest terms with a positive denominator
Rat(n, d) ==
    LET g == GCD(Abs(n), Abs(d))
        s == IF d < 0 THEN -1 ELSE 1
    IN  [n |-> (s * n) \div g, d |-> (s * d) \div g]

Num(k) == Rat(k, 1)

\* products and sums cancel common factors first, which keeps the integers small
Mul(x, y) ==
    LET g1 == GCD(Abs(x.n), y.d)
        g2 == GCD(Abs(y.n), x.d)
    IN  Rat((x.n \div g1) * (y.n \div g2), (x.d \div g2) * (y.d \div g1))
Add(x, y) ==
    LET g == GCD(x.d, y.d)
    IN  Rat(x.n * (y.d \div g) + y.n * (x.d \div g), (x.d \div g) * y.d)
Neg(x) == [n |-> -x.n, d |-> x.d]
Sub(x, y) == Add(x, Neg(y))
\* x / y for y # 0; Python raises ZeroDivisionError for y = 0, see percentDifference
Div(x, y) == Mul(x, Rat(y.d, y.n))
Gt(x, y) == x.n * y.d > y.n * x.d
Geq(x, y) == x.n * y.d >= y.n * x.d
IsZero(x) == x.n = 0

\* optional values: a name that is bound, or not (a branch that did not run)
None == {}
Some(v) == {v}
The(o) == CHOOSE v \in o : TRUE

\* ------------------------------------------------------------ dictionaries
Entry(k, v) == [key |-> k, value |-> v]

Keys(T) == [i \in 1..Len(T) |-> T[i].key]
KeySet(T) == {T[i].key : i \in 1..Len(T)}
Get(T, k) == T[CHOOSE i \in 1..Len(T) : T[i].key = k].value

\* T[k] = v: an existing key keeps its position, a new key is appended
DictSet(T, k, v) ==
    IF k \in KeySet(T)
    THEN [i \in 1..Len(T) |-> IF T[i].key = k THEN Entry(k, v) ELSE T[i]]
    ELSE Append(T, Entry(k, v))

RECURSIVE SumFrom(_, _)
SumFrom(T, i) == IF i > Len(T) THEN Num(0) ELSE Add(T[i].value, SumFrom(T, i + 1))
\* sum(T.values())
SumValues(T) == SumFrom(T, 1)

\* ------------------------------------------------------ module-level data
EFB == "Empty Fruit Bunches (EFB)"
PKS == "Palm Kernel Shell (PKS)"
FIBRE == "Mesocarp Fibre"
CAKE == "Decanter Cake"
POME == "Palm Oil Mill Effluent (POME)"
SPO == "Sludge Palm Oil (SPO)"

\* a table without the last component (the five-component table of the
\* spec's worked example)
DefaultTableNoSPO ==
    << Entry(EFB, Rat(21, 100)), Entry(PKS, Rat(55, 1000)),
       Entry(FIBRE, Rat(144, 1000)), Entry(CAKE, Rat(35, 1000)),
       Entry(POME, Rat(583, 1000)) >>

\* the dict literal bound to DEFAULT_BIOMASS_RATIOS
DefaultTable ==
    << Entry(EFB, Rat(21, 100)), Entry(PKS, Rat(55, 1000)),
       Entry(FIBRE, Rat(144, 1000)), Entry(CAKE, Rat(35, 1000)),
       Entry(POME, Rat(583, 1000)), Entry(SPO, Rat(1, 100)) >>

\* 14.47 and 74.48
DefaultFrond == Rat(1447, 100)
DefaultTrunk == Rat(7448, 100)

\* the literal 100 of the percentage conversions
Hundred == Num(100)

VARIABLES
    DEFAULT_BIOMASS_RATIOS,   \* contents of the module-level dict
    DEFAULT_FROND_MT_PER_HA,  \* module-level float
    DEFAULT_TRUNK_MT_PER_HA,  \* module-level float
    widgets,                  \* session -> widget id -> value the user set
    out,                      \* session -> what the last run of main() produced
    steps,                    \* interactions so far
    call                      \* the last single call and its outcome (SpecUnit)

vars == << DEFAULT_BIOMASS_RATIOS, DEFAULT_FROND_MT_PER_HA,
           DEFAULT_TRUNK_MT_PER_HA, widgets, out, steps, call >>

globals == << DEFAULT_BIOMASS_RATIOS, DEFAULT_FROND_MT_PER_HA,
              DEFAULT_TRUNK_MT_PER_HA >>

\* --------------------------------------------------------- calculate_biomass
\* a plausible slip: the factor is added, not multiplied
calculate_biomass_added(ffb_mt, biomass_ratios) ==
    [i \in 1..Len(biomass_ratios) |->
        Entry(biomass_ratios[i].key, Add(ffb_mt, biomass_ratios[i].value))]

\* a plausible slip: a falsy mass short-cuts to an empty result
calculate_biomass_falsy(ffb_mt, biomass_ratios) ==
    IF IsZero(ffb_mt) THEN << >>
    ELSE [i \in 1..Len(biomass_ratios) |->
            Entry(biomass_ratios[i].key, Mul(ffb_mt, biomass_ratios[i].value))]

\* {biomass_type: ffb_mt * ratio for biomass_type, ratio in biomass_ratios.items()}
calculate_biomass(ffb_mt, biomass_ratios) ==
    [i \in 1..Len(biomass_ratios) |->
        Entry(biomass_ratios[i].key, Mul(ffb_mt, biomass_ratios[i].value))]


\* ---------------------------------------------------------------- widgets
Sessions == {"s1", "s2"}

FFB_DEFAULT == "ffb_default"
FFB_CUSTOM == "ffb_custom"
AREA_INSIGHTS == "area_insights"
FROND_INPUT == "Oil Palm Frond (OPF) production (MT/ha/year):"
TRUNK_INPUT == "Oil Palm Trunk (OPT) production (MT/ha/year):"

NumberInputs == {FFB_DEFAULT, FFB_CUSTOM, AREA_INSIGHTS, FROND_INPUT, TRUNK_INPUT}
\* one slider per key of the default table, labelled f"{biomass_type} (%)";
\* the model names the slider by its biomass_type
Sliders == KeySet(DefaultTable)

\* min_value=0.0, max_value=100.0, step=0.1 of every slider
SliderMin == Num(0)
SliderMax == Num(100)
SliderStep == Rat(1, 10)
\* min_value=0.0 of every number_input (none has a max_value)
NumberMin == Num(0)

\* a slider without its max_value
Accepts_unbounded(id, v) ==
    IF id \in Sliders
    THEN Geq(v, SliderMin) /\ Div(v, SliderStep).d = 1
    ELSE id \in NumberInputs /\ Geq(v, NumberMin)

\* The values a widget can hold: a slider stays within [min_value,
\* max_value] on its step grid, a number_input at or above min_value.  A
\* name that is no widget of the page holds nothing.
Accepts(id, v) ==
    IF id \in Sliders
    THEN Geq(v, SliderMin) /\ Geq(SliderMax, v) /\ Div(v, SliderStep).d = 1
    ELSE id \in NumberInputs /\ Geq(v, NumberMin)

NoWidgets == [id \in {} |-> Num(0)]
SetWidget(ws, id, v) == [k \in DOMAIN ws \cup {id} |-> IF k = id THEN v ELSE ws[k]]

\* the part of a requested mapping widget -> value that the widgets take
Submit(requested) ==
    [id \in {k \in DOMAIN requested : Accepts(k, requested[k])} |-> requested[id]]

\* st.slider / st.number_input: the value the user set, else the value= argument
slider(id, value, ws) == IF id \in DOMAIN ws THEN ws[id] ELSE value
number_input(id, value, ws) == IF id \in DOMAIN ws THEN ws[id] ELSE value

\* --------------------------------------------------------------- Tab 1
Tab1(ws) ==
    LET ffb_mt_default == number_input(FFB_DEFAULT, Hundred, ws)
    IN  IF Gt(ffb_mt_default, Num(0))
        THEN Some(calculate_biomass(ffb_mt_default, DEFAULT_BIOMASS_RATIOS))
        ELSE None

\* --------------------------------------------------------------- Tab 2
\* The objects the loop can write: "global" is the module-level dict,
\* "local" the dict created by this run.  custom_ratios names one of them.
\* the slip custom_ratios = DEFAULT_BIOMASS_RATIOS: the name aliases the global
AliasedCustomRatios == "global"

\* custom_ratios = {}: a fresh dict of this run
NewCustomRatios == "local"

RECURSIVE CustomRatiosLoop(_, _, _, _, _)
\* for biomass_type in DEFAULT_BIOMASS_RATIOS.keys(): ... ; returns the heap
CustomRatiosLoop(i, keys, ws, heap, ref) ==
    IF i > Len(keys) THEN heap
    ELSE LET biomass_type == keys[i]
             default_percentage == Mul(Get(heap["global"], biomass_type), Hundred)
             custom_percentage == slider(biomass_type, default_percentage, ws)
             written == DictSet(heap[ref], biomass_type, Div(custom_percentage, Hundred))
         IN  CustomRatiosLoop(i + 1, keys, ws, [heap EXCEPT ![ref] = written], ref)

\* main() calls no st.warning or st.error and has no raise statement: whatever
\* the ratios, the messages of a run are none
Messages(custom_ratios) == {}

Tab2(ws) ==
    LET ref == NewCustomRatios
        heap0 == [global |-> DEFAULT_BIOMASS_RATIOS, local |-> << >>]
        heap == CustomRatiosLoop(1, Keys(DEFAULT_BIOMASS_RATIOS), ws, heap0, ref)
        custom_ratios == heap[ref]
        ffb_mt_custom == number_input(FFB_CUSTOM, Hundred, ws)
    IN  [custom_ratios |-> custom_ratios,
         ffb_mt_custom |-> ffb_mt_custom,
         biomass_results_custom |->
             IF Gt(ffb_mt_custom, Num(0))
             THEN Some(calculate_biomass(ffb_mt_custom, custom_ratios))
             ELSE None,
         messages |-> Messages(custom_ratios),
         defaults_after |-> heap["global"]]

\* --------------------------------------------------------------- Tab 3
\* the deviation taken relative to the custom value
percentDifference_swapped(custom, default) ==
    IF IsZero(custom)
    THEN [raised |-> "ZeroDivisionError", value |-> None]
    ELSE [raised |-> "none",
          value |-> Some(Mul(Div(Sub(custom, default), custom), Hundred))]

\* ((custom - default) / default) * 100; a Python float division by zero
\* raises ZeroDivisionError
percentDifference(custom, default) ==
    IF IsZero(default)
    THEN [raised |-> "ZeroDivisionError", value |-> None]
    ELSE [raised |-> "none",
          value |-> Some(Mul(Div(Sub(custom, default), default), Hundred))]

\* if plantation_area_ha > 0: custom_frond_biomass, custom_trunk_biomass
AreaBiomass(plantation_area_ha, frond_mt_per_ha, trunk_mt_per_ha) ==
    IF Gt(plantation_area_ha, Num(0))
    THEN Some([frond |-> Mul(plantation_area_ha, frond_mt_per_ha),
               trunk |-> Mul(plantation_area_ha, trunk_mt_per_ha)])
    ELSE None

Tab3(ws) ==
    LET custom_frond_mt_per_ha == number_input(FROND_INPUT, DEFAULT_FROND_MT_PER_HA, ws)
        custom_trunk_mt_per_ha == number_input(TRUNK_INPUT, DEFAULT_TRUNK_MT_PER_HA, ws)
        plantation_area_ha == number_input(AREA_INSIGHTS, Hundred, ws)
        biomass == AreaBiomass(plantation_area_ha, custom_frond_mt_per_ha,
                               custom_trunk_mt_per_ha)
        nothing == [area |-> plantation_area_ha, biomass |-> None,
                    frond_diff |-> None, trunk_diff |-> None, raised |-> "none"]
    IN  IF biomass = None THEN nothing
        ELSE LET frond_diff == percentDifference(The(biomass).frond,
                     Mul(plantation_area_ha, DEFAULT_FROND_MT_PER_HA))
                 trunk_diff == percentDifference(The(biomass).trunk,
                     Mul(plantation_area_ha, DEFAULT_TRUNK_MT_PER_HA))
             IN  IF frond_diff.raised # "none"
                 THEN [nothing EXCEPT !.biomass = biomass, !.raised = frond_diff.raised]
                 ELSE [area |-> plantation_area_ha, biomass |-> biomass,
                       frond_diff |-> frond_diff.value,
                       trunk_diff |-> trunk_diff.value,
                       raised |-> trunk_diff.raised]

\* ---------------------------------------------------------------- main()
\* one run of the script for a session's widget state
Main(ws) ==
    LET tab2 == Tab2(ws)
    IN  [biomass_results |-> Tab1(ws),
         custom_ratios |-> tab2.custom_ratios,
         biomass_results_custom |-> tab2.biomass_results_custom,
         messages |-> tab2.messages,
         insights |-> Tab3(ws),
         defaults_after |-> tab2.defaults_after]

Shown(r) == [f \in DOMAIN r \ {"defaults_after"} |-> r[f]]

NoCall == [fn |-> "none"]

Init ==
    /\ DEFAULT_BIOMASS_RATIOS = DefaultTable
    /\ DEFAULT_FROND_MT_PER_HA = DefaultFrond
    /\ DEFAULT_TRUNK_MT_PER_HA = DefaultTrunk
    /\ widgets = [s \in Sessions |-> NoWidgets]
    /\ out = [s \in Sessions |-> Shown(Main(NoWidgets))]
    /\ steps = 0
    /\ call = NoCall

\* values a user may try to give a slider (percent) or a number_input
SliderTries == {Rat(305, 10), Num(100), Num(130)}
NumberTries == {Num(-1), Num(0), Num(10)}

\* A user of session s changes one widget; the script reruns for s.
Interact(s, id, v) ==
    /\ steps < MaxSteps
    /\ Accepts(id, v)
    /\ LET ws == SetWidget(widgets[s], id, v)
           run == Main(ws)
       IN  /\ widgets' = [widgets EXCEPT ![s] = ws]
           /\ out' = [out EXCEPT ![s] = Shown(run)]
           /\ DEFAULT_BIOMASS_RATIOS' = run.defaults_after
    /\ steps' = steps + 1
    /\ UNCHANGED << DEFAULT_FROND_MT_PER_HA, DEFAULT_TRUNK_MT_PER_HA, call >>

Next ==
    \E s \in Sessions :
        \/ \E id \in Sliders, v \in SliderTries : Interact(s, id, v)
        \/ \E id \in NumberInputs, v \in NumberTries : Interact(s, id, v)

Spec == Init /\ [][Next]_vars

\* ------------------------------------------------------------ single calls
\* A behaviour of SpecUnit makes one call, on the freshly loaded module.
\* inputs of the single calls
MassInputs == {Num(-1), Num(0), Rat(1, 2), Num(10), Num(100)}
RatioInputs == {Num(0), Rat(55, 1000), Num(1), Rat(13, 10)}
KeyInputs == {EFB, PKS, "X"}

DistinctKeys(t) == \A i, j \in 1..Len(t) : i # j => t[i].key # t[j].key

\* the ratio tables of at most MaxKeys entries, and the default table
TableInputs ==
    {DEFAULT_BIOMASS_RATIOS} \cup
    {t \in UNION {[1..n -> [key : KeyInputs, value : RatioInputs]] : n \in 0..MaxKeys} :
        DistinctKeys(t)}

\* requested slider positions, in percent, by name; "Unknown" names no slider
OverrideKeys == {EFB, PKS, SPO, "Unknown"}
PercentInputs == {Num(0), Num(5), Rat(555, 100), Num(100), Num(130)}
OverrideInputs ==
    UNION {[D -> PercentInputs] :
           D \in {D \in SUBSET OverrideKeys : Cardinality(D) <= MaxOverrides}}

\* masses asked of Tab 2's number_input
CustomMassInputs == {Num(0), Num(10), Num(100)}

CustomInputs == {Num(0), Num(100), Num(110)}
BaselineInputs == {Num(0), Num(100), DefaultFrond}
AreaInputs == {Num(-1), Num(0), Rat(1, 2), Num(100)}
YieldInputs == {Num(0), DefaultFrond, DefaultTrunk, Num(20)}

\* calculate_biomass(m, T); the function has no raise statement
Call_calculate_biomass(m, T) ==
    /\ call = NoCall
    /\ call' = [fn |-> "calculate_biomass", ffb_mt |-> m, biomass_ratios |-> T,
                ret |-> Some(calculate_biomass(m, T)), raised |-> "none"]
    /\ UNCHANGED << globals, widgets, out, steps >>

\* Tab 2 of a new session whose user asks for the slider positions ov and
\* the mass m: the widgets take what they accept, the script runs
Call_withOverrides(ov, m) ==
    /\ call = NoCall
    /\ LET ws == Submit((FFB_CUSTOM :> m) @@ ov)
           tab2 == Tab2(ws)
       IN  call' = [fn |-> "withOverrides", overrides |-> ov, requested_mt |-> m,
                    ret |-> Some(tab2.custom_ratios), raised |-> "none",
                    ffb_mt_custom |-> tab2.ffb_mt_custom,
                    biomass_results_custom |-> tab2.biomass_results_custom,
                    messages |-> tab2.messages]
    /\ UNCHANGED << globals, widgets, out, steps >>

\* the expression of lines 297-298 on its own
Call_percentDifference(c, d) ==
    /\ call = NoCall
    /\ LET r == percentDifference(c, d)
       IN  call' = [fn |-> "percentDifference", custom |-> c, default |-> d,
                    ret |-> r.value, raised |-> r.raised]
    /\ UNCHANGED << globals, widgets, out, steps >>

\* the guarded products of lines 270-272 on their own
Call_computeFromArea(a, f, t) ==
    /\ call = NoCall
    /\ call' = [fn |-> "computeFromArea", area_ha |-> a, frond_yield |-> f,
                trunk_yield |-> t, ret |-> AreaBiomass(a, f, t), raised |-> "none"]
    /\ UNCHANGED << globals, widgets, out, steps >>

\* Tab 3 of a new session whose user asks for area a and yields f, t
Call_insights(a, f, t) ==
    /\ call = NoCall
    /\ LET ws == Submit((AREA_INSIGHTS :> a) @@ (FROND_INPUT :> f) @@ (TRUNK_INPUT :> t))
           tab3 == Tab3(ws)
       IN  call' = [fn |-> "insights", requested |-> << a, f, t >>,
                    ret |-> tab3, raised |-> tab3.raised]
    /\ UNCHANGED << globals, widgets, out, steps >>

UnitNext ==
    \/ \E m \in MassInputs, T \in TableInputs : Call_calculate_biomass(m, T)
    \/ \E ov \in OverrideInputs, m \in CustomMassInputs : Call_withOverrides(ov, m)
    \/ \E c \in CustomInputs, d \in BaselineInputs : Call_percentDifference(c, d)
    \/ \E a \in AreaInputs, f \in YieldInputs, t \in YieldInputs : Call_computeFromArea(a, f, t)
    \/ \E a \in AreaInputs, f \in YieldInputs, t \in YieldInputs : Call_insights(a, f, t)

SpecUnit == Init /\ [][UnitNext]_vars

\* ------------------------------------------------------------------ claims
\* x = y * z over the rationals, by cross multiplication
IsProduct(x, y, z) == x.n * (y.d * z.d) = (y.n * z.n) * x.d

SameKeys(R, T) == Len(R) = Len(T) /\ \A i \in 1..Len(T) : R[i].key = T[i].key

IsMassCall == call.fn = "calculate_biomass"

(* C1: for a non-negative mass m and any ratio table T, calculate_biomass  *)
(* returns a mapping with exactly T's keys, in T's order, whose value for  *)
(* each component is m * T[c].                                             *)
C1_MassTimesRatio ==
    (IsMassCall /\ Geq(call.ffb_mt, Num(0))) =>
        /\ call.raised = "none"
        /\ call.ret # None
        /\ SameKeys(The(call.ret), call.biomass_ratios)
        /\ \A i \in 1..Len(call.biomass_ratios) :
               IsProduct(The(call.ret)[i].value, call.ffb_mt,
                         call.biomass_ratios[i].value)

C1_Witness ==
    /\ IsMassCall
    /\ Gt(call.ffb_mt, Num(0))
    /\ Len(call.biomass_ratios) >= 2
    /\ call.biomass_ratios[1].value # call.biomass_ratios[2].value
    /\ ~IsZero(call.biomass_ratios[1].value)
    /\ The(call.ret)[1].value # The(call.ret)[2].value

(* C2: a call of calculate_biomass with a negative mass fails with         *)
(* InvalidInput and returns no result mapping.                             *)
C2_NegativeMassRejected ==
    (IsMassCall /\ ~Geq(call.ffb_mt, Num(0))) =>
        (call.raised = "InvalidInput" /\ call.ret = None)

(* C10: calculate_biomass(0, T) returns a result with every component of T *)
(* at quantity 0 and signals no error.                                     *)
C10_ZeroMassAllZero ==
    (IsMassCall /\ IsZero(call.ffb_mt)) =>
        /\ call.raised = "none"
        /\ call.ret # None
        /\ SameKeys(The(call.ret), call.biomass_ratios)
        /\ \A i \in 1..Len(call.biomass_ratios) : IsZero(The(call.ret)[i].value)

C10_Witness ==
    /\ IsMassCall
    /\ IsZero(call.ffb_mt)
    /\ Len(call.biomass_ratios) >= 2
    /\ \A i \in 1..Len(call.biomass_ratios) : ~IsZero(call.biomass_ratios[i].value)
    /\ Len(The(call.ret)) = Len(call.biomass_ratios)

IsDefaultCall ==
    IsMassCall /\ call.ffb_mt = Hundred /\ call.biomass_ratios = DEFAULT_BIOMASS_RATIOS

(* C5 as stated: the quantities of calculate_biomass(100, defaults) sum to *)
(* 100 times the sum of the default ratios, and that sum is 102.7 (ratio   *)
(* sum 1.027).                                                             *)
C5_SumIs102_7 ==
    IsDefaultCall =>
        /\ SumValues(The(call.ret)) = Mul(Hundred, SumValues(call.biomass_ratios))
        /\ SumValues(call.biomass_ratios) = Rat(1027, 1000)
        /\ SumValues(The(call.ret)) = Rat(1027, 10)

(* C5 amended: the quantities of calculate_biomass(100, defaults) sum to   *)
(* 100 times the sum of the six default ratios, which is 103.7 (ratio sum  *)
(* 1.037).                                                                 *)
C5_SumIs103_7 ==
    IsDefaultCall =>
        /\ SumValues(The(call.ret)) = Mul(Hundred, SumValues(call.biomass_ratios))
        /\ SumValues(call.biomass_ratios) = Rat(1037, 1000)
        /\ SumValues(The(call.ret)) = Rat(1037, 10)

C5_Witness == IsDefaultCall /\ Len(The(call.ret)) = Len(DEFAULT_BIOMASS_RATIOS)

IsDifferenceCall == call.fn = "percentDifference"
IsInsightsCall == call.fn = "insights"

\* x = (c - d) / d * 100 over the rationals, by cross multiplication
IsPercentOf(x, c, d) == x.n * (c.d * d.n) = (100 * (c.n * d.d - d.n * c.d)) * x.d

(* C3: the percentage difference is (custom - default) / default * 100 for *)
(* a non-zero default (110 against 100 gives 10); with a zero default it   *)
(* fails with a division-by-zero error and yields no number; and Tab 3 of  *)
(* main, whatever the widgets were asked to hold, never raises it: when    *)
(* the differences are computed both denominators are non-zero.            *)
C3_PercentDifference ==
    /\ IsDifferenceCall =>
           IF IsZero(call.default)
           THEN call.raised = "ZeroDivisionError" /\ call.ret = None
           ELSE /\ call.raised = "none"
                /\ call.ret # None
                /\ IsPercentOf(The(call.ret), call.custom, call.default)
                /\ (call.custom = Num(110) /\ call.default = Hundred)
                       => The(call.ret) = Num(10)
    /\ IsInsightsCall =>
           /\ call.raised = "none"
           /\ call.ret.biomass # None =>
                  /\ ~IsZero(Mul(call.ret.area, DEFAULT_FROND_MT_PER_HA))
                  /\ ~IsZero(Mul(call.ret.area, DEFAULT_TRUNK_MT_PER_HA))
                  /\ call.ret.frond_diff # None
                  /\ call.ret.trunk_diff # None

C3_Witness ==
    /\ IsDifferenceCall
    /\ IsZero(call.default)
    /\ ~IsZero(call.custom)
    /\ call.raised = "ZeroDivisionError"

IsAreaCall == call.fn = "computeFromArea"

(* C8: for a non-negative area a and yields f, t the area computation      *)
(* returns (a * f, a * t), so (100, 14.47, 74.48) gives (1447, 7448) and   *)
(* area 0 gives zero quantities without an error; a negative area fails    *)
(* with InvalidInput.                                                      *)
C8_AreaTimesYield ==
    IsAreaCall =>
        IF Geq(call.area_ha, Num(0))
        THEN /\ call.raised = "none"
             /\ call.ret # None
             /\ IsProduct(The(call.ret).frond, call.area_ha, call.frond_yield)
             /\ IsProduct(The(call.ret).trunk, call.area_ha, call.trunk_yield)
             /\ (call.area_ha = Hundred /\ call.frond_yield = DefaultFrond
                 /\ call.trunk_yield = DefaultTrunk)
                    => The(call.ret) = [frond |-> Num(1447), trunk |-> Num(7448)]
        ELSE call.raised = "InvalidInput" /\ call.ret = None

IsOverrideCall == call.fn = "withOverrides"

(* C4: an override mapping that names a component absent from the table    *)
(* fails with UnknownComponent and is rejected as a whole: no ratio table  *)
(* with any of its keys applied results.                                   *)
C4_UnknownComponentRejected ==
    (IsOverrideCall
     /\ \E k \in DOMAIN call.overrides : k \notin KeySet(DEFAULT_BIOMASS_RATIOS)) =>
        /\ call.raised = "UnknownComponent"
        /\ call.ret = None

\* sum of the ratios, in percent
SumPercentage(T) == Mul(SumValues(T), Hundred)

\* the distance of the ratio sum, in percent, from 100 exceeds 0.1
SumDeviates(T) ==
    LET dev == Sub(SumPercentage(T), Hundred)
    IN  Gt(dev, Rat(1, 10)) \/ Gt(Rat(-1, 10), dev)

(* C6: whenever the custom ratios, in percent, sum to something more than  *)
(* 0.1 away from 100 a RatioSumWarning is emitted, and the warning is      *)
(* advisory: the mass computation with those ratios is still performed for *)
(* every positive mass.                                                    *)
C6_RatioSumWarning ==
    IsOverrideCall =>
        /\ SumDeviates(The(call.ret)) => "RatioSumWarning" \in call.messages
        /\ Gt(call.ffb_mt_custom, Num(0)) => call.biomass_results_custom # None

\* p percent expressed as a ratio: r = p / 100, by cross multiplication
IsPercentage(r, p) == r.n * 100 * p.d = p.n * r.d

\* p lies on a slider's scale: 0 <= p <= 100 in steps of 0.1
OnSliderScale(p) == Geq(p, Num(0)) /\ Geq(Hundred, p) /\ (10 * p.n) % p.d = 0

Own(s, id, v) == IF id \in DOMAIN widgets[s] THEN widgets[s][id] ELSE v

\* What session s is shown follows from its own widgets and the literal
\* defaults alone.
OwnView(s) ==
    LET o == out[s]
        ws == widgets[s]
        D == DefaultTable
        area == Own(s, AREA_INSIGHTS, Hundred)
    IN  /\ SameKeys(o.custom_ratios, D)
        /\ \A i \in 1..Len(D) :
               IF D[i].key \in DOMAIN ws
               THEN IsPercentage(o.custom_ratios[i].value, ws[D[i].key])
               ELSE o.custom_ratios[i].value = D[i].value
        /\ o.biomass_results # None =>
               LET R == The(o.biomass_results)
                   ffb == Own(s, FFB_DEFAULT, Hundred)
               IN  /\ SameKeys(R, D)
                   /\ \A i \in 1..Len(D) : IsProduct(R[i].value, ffb, D[i].value)
        /\ o.biomass_results_custom # None =>
               LET R == The(o.biomass_results_custom)
                   ffb == Own(s, FFB_CUSTOM, Hundred)
               IN  /\ SameKeys(R, D)
                   /\ \A i \in 1..Len(D) :
                          IsProduct(R[i].value, ffb, o.custom_ratios[i].value)
        /\ o.insights.biomass # None =>
               LET B == The(o.insights.biomass)
               IN  /\ IsProduct(B.frond, area, Own(s, FROND_INPUT, DefaultFrond))
                   /\ IsProduct(B.trunk, area, Own(s, TRUNK_INPUT, DefaultTrunk))
                   /\ IsPercentOf(The(o.insights.frond_diff), B.frond,
                                  Mul(area, DefaultFrond))
                   /\ IsPercentOf(The(o.insights.trunk_diff), B.trunk,
                                  Mul(area, DefaultTrunk))

(* C7: in every interleaving of the sessions' interactions no session's    *)
(* state leaks: an interaction changes neither the module-level defaults   *)
(* nor the widgets or results of any other session, and what a session is  *)
(* shown follows from its own widgets and the defaults alone.              *)
C7_NoLeak ==
    /\ [](\A s \in Sessions : OwnView(s))
    /\ [][ /\ globals' = globals
           /\ \E s \in Sessions :
                  \A t \in Sessions \ {s} :
                      widgets'[t] = widgets[t] /\ out'[t] = out[t] ]_vars

C7_Witness ==
    /\ steps = 2
    /\ EFB \in DOMAIN widgets["s1"]
    /\ EFB \notin DOMAIN widgets["s2"]
    /\ FFB_CUSTOM \in DOMAIN widgets["s2"]
    /\ Get(out["s1"].custom_ratios, EFB) # Get(out["s2"].custom_ratios, EFB)
    /\ out["s2"].biomass_results_custom # None

=============================================================================
